---- MODULE Spec2Model ----
(***************************************************************************)
(* Model of aiai_eval/model_loading.py: load_model dispatches on           *)
(* model_config.framework to load_pytorch_model or load_spacy_model. Each  *)
(* call into a wrapped library (transformers, spaCy, pip) is one step      *)
(* whose outcome (a value or a raised error) is chosen by the library.     *)
(***************************************************************************)
EXTENDS Integers, Sequences, FiniteSets, TLC

\* Number of load_model calls made on the same model_config object.
MaxCalls == 2

\* model_loading.py:166, the largest model_max_length left untouched.
MAX_LENGTH_LIMIT == 1000
\* model_loading.py:174 and :176, the fallback model_max_length.
DEFAULT_MAX_LENGTH == 512

(***************************************************************************)
(* Inputs                                                                  *)
(***************************************************************************)
\* Values of the Framework enum that model_config.framework may hold.
Frameworks == {"PYTORCH", "JAX", "SPACY", "TENSORFLOW"}

\* Model ids are strings, kept as sequences of characters.
ModelIds ==
    { <<"m">>,
      <<"o", "/", "m">>,
      <<"o", "/", "p", "/", "m">> }

Revisions == {"main", "v1"}
AuthTokens == {TRUE, FALSE}
Devices == {"cpu", "cuda"}
Supertasks == {"sequence-classification", "no-such-task"}

\* type(model).__name__ of the classes the hub may instantiate.
RobertaModel == <<"R","o","b","e","r","t","a","M">>
XLMRobertaModel == <<"X","L","M","R","o","b","e","r","t","a","M">>
BertModel == <<"B","e","r","t","M">>
RoBertaModel == <<"R","o","B","e","r","t","a","M">>
ClassNames == {RobertaModel, XLMRobertaModel, BertModel, RoBertaModel}

\* Tokenizers as AutoTokenizer.from_pretrained may return them: with or
\* without model_max_length, with or without max_model_input_sizes.
MaxLengths == {512, 1000, 1001, 1000000}
InputSizes == { <<>>, <<512>>, <<1024, 256>>, <<2048, 4096>> }
Tokenizers ==
    [origin : {"AutoTokenizer.from_pretrained"},
     has_model_max_length : {TRUE}, model_max_length : MaxLengths,
     has_max_model_input_sizes : BOOLEAN, max_model_input_sizes : InputSizes]
    \cup
    [origin : {"AutoTokenizer.from_pretrained"},
     has_model_max_length : {FALSE}, model_max_length : {0},
     has_max_model_input_sizes : BOOLEAN, max_model_input_sizes : InputSizes]

\* Errors the wrapped libraries raise, as [type, message].
LibraryError(t) == [type |-> t, message |-> <<"library: ", t>>]
HubErrors == {LibraryError("OSError"), LibraryError("ValueError"),
              LibraryError("KeyError")}

(***************************************************************************)
(* exceptions.py                                                           *)
(***************************************************************************)
InvalidEvaluation(message) ==
    [type |-> "InvalidEvaluation", message |-> message]

ModelFetchFailed(mid, error_msg, message) ==
    [type |-> "ModelFetchFailed", model_id |-> mid, error_msg |-> error_msg,
     message |-> IF Len(message) > 0
                 THEN message
                 ELSE <<"Download of ", mid,
                        " from the Hugging Face Hub failed, with the following error message: ",
                        error_msg, ".">>]

InvalidFramework(fw) ==
    [type |-> "InvalidFramework", framework |-> fw,
     message |-> <<"The framework ", fw, " is not supported.">>]

ProjectExceptions == {"InvalidEvaluation", "InvalidFramework", "ModelFetchFailed"}

(***************************************************************************)
(* Pure helpers                                                            *)
(***************************************************************************)
\* str.split(sep): the list of segments between separators.
RECURSIVE Split(_, _)
Split(s, sep) ==
    IF \A i \in 1..Len(s) : s[i] # sep
    THEN <<s>>
    ELSE LET i == CHOOSE k \in 1..Len(s) :
                      s[k] = sep /\ \A j \in 1..(k - 1) : s[j] # sep
         IN <<SubSeq(s, 1, i - 1)>> \o Split(SubSeq(s, i + 1, Len(s)), sep)

\* sub in s, for Python strings.
Contains(s, sub) ==
    \E i \in 0..(Len(s) - Len(sub)) : SubSeq(s, i + 1, i + Len(sub)) = sub

\* min(list) of a non-empty list of integers.
Min(xs) == CHOOSE m \in {xs[i] : i \in 1..Len(xs)} :
               \A i \in 1..Len(xs) : m <= xs[i]

Roberta == <<"R","o","b","e","r","t","a">>

\* The ops of a trace, in order.
Ops(t) == [i \in 1..Len(t) |-> t[i].op]

(***************************************************************************)
(* Local logic of model_loading.py                                         *)
(***************************************************************************)
\* Variant of RewriteFramework that leaves a JAX framework in place.
RewriteFrameworkKeepsJax(fw) == fw

\* load_model, lines 53-54: a JAX framework is rewritten to PYTORCH.
RewriteFramework(fw) == IF fw = "JAX" THEN "PYTORCH" ELSE fw

\* Variant of Dispatch whose last branch loads spaCy instead of raising.
DispatchElseSpacy(fw) ==
    IF fw = "PYTORCH" THEN "load_pytorch_model" ELSE "load_spacy_model"

\* load_model, lines 56-68: the loader chosen for a (rewritten) framework.
Dispatch(fw) ==
    IF fw = "PYTORCH" THEN "load_pytorch_model"
    ELSE IF fw = "SPACY" THEN "load_spacy_model"
    ELSE "raise"

\* Variant of PytorchTryHandler that catches OSError only.
PytorchTryHandlerOSErrorOnly(e, mid) ==
    IF e.type = "OSError"
    THEN InvalidEvaluation(<<"The model ", mid,
             " either does not have a frameworks registered, or it is a private model.">>)
    ELSE e

\* load_pytorch_model, lines 137-143: the except clause of the try block.
PytorchTryHandler(e, mid) ==
    IF e.type \in {"OSError", "ValueError"}
    THEN InvalidEvaluation(<<"The model ", mid,
             " either does not have a frameworks registered, or it is a private model.">>)
    ELSE e

\* Variant of PrefixSpace that tests the start of the class name only.
PrefixSpaceStartsWith(cls) ==
    Len(cls) >= Len(Roberta) /\ SubSeq(cls, 1, Len(Roberta)) = Roberta

\* load_pytorch_model, line 155.
PrefixSpace(cls) == Contains(cls, Roberta)

\* Variant of FixMaxLength that also replaces a length equal to the limit.
FixMaxLengthInclusive(tok) ==
    IF ~tok.has_model_max_length \/ tok.model_max_length >= MAX_LENGTH_LIMIT
    THEN IF tok.has_max_model_input_sizes /\ Len(tok.max_model_input_sizes) > 0
         THEN [tok EXCEPT !.has_model_max_length = TRUE,
                          !.model_max_length = Min(tok.max_model_input_sizes)]
         ELSE [tok EXCEPT !.has_model_max_length = TRUE,
                          !.model_max_length = DEFAULT_MAX_LENGTH]
    ELSE tok

\* load_pytorch_model, lines 166-176.
FixMaxLength(tok) ==
    IF ~tok.has_model_max_length \/ tok.model_max_length > MAX_LENGTH_LIMIT
    THEN IF tok.has_max_model_input_sizes
         THEN IF Len(tok.max_model_input_sizes) > 0
              THEN [tok EXCEPT !.has_model_max_length = TRUE,
                               !.model_max_length = Min(tok.max_model_input_sizes)]
              ELSE [tok EXCEPT !.has_model_max_length = TRUE,
                               !.model_max_length = DEFAULT_MAX_LENGTH]
         ELSE [tok EXCEPT !.has_model_max_length = TRUE,
                          !.model_max_length = DEFAULT_MAX_LENGTH]
    ELSE tok

\* Variant of PytorchDict that leaves the tokenizer out.
PytorchDictModelOnly(m, tok) == [model |-> m]

\* load_pytorch_model, line 184.
PytorchDict(m, tok) == [model |-> m, tokenizer |-> tok]

\* Variant of LocalModelId that keeps the first segment.
LocalModelIdFirstSegment(mid) == Split(mid, "/")[1]

\* load_spacy_model, line 204.
LocalModelId(mid) == LET parts == Split(mid, "/") IN parts[Len(parts)]

\* load_spacy_model, lines 209-212.
WheelUrl(mid, local) ==
    <<"https://huggingface.co/", mid, "/resolve/main/", local,
      "-any-py3-none-any.whl">>

\* load_spacy_model, lines 215-216: the except clause of the install step.
SpacyInstallHandler(e, local) ==
    IF e.type = "CalledProcessError"
    THEN ModelFetchFailed(local, e.output, <<>>)
    ELSE e

\* load_spacy_model, lines 221-229: the except clause of the load step.
SpacyLoadHandler(e, mid) ==
    IF e.type = "OSError"
    THEN ModelFetchFailed(mid, e.message,
             <<"Download of ", mid, " failed, with the following error message: ",
               e.message, ".">>)
    ELSE e

\* load_spacy_model, line 230.
SpacyDict(m) == [model |-> m]

(***************************************************************************)
(* State                                                                   *)
(***************************************************************************)
VARIABLES
    framework,        \* model_config.framework
    model_id,         \* model_config.model_id
    revision,         \* model_config.revision
    use_auth_token,   \* evaluation_config.use_auth_token
    device,           \* evaluation_config.device
    supertask,        \* task_config.supertask
    pc,               \* position in the call chain of the current call
    from_flax,        \* local of load_model
    config,           \* local of load_pytorch_model
    model,            \* local of the running loader
    tokenizer,        \* local of load_pytorch_model
    local_model_id,   \* local of load_spacy_model
    result,           \* what the current load_model call gave its caller
    trace,            \* the calls the current load_model call has made
    hist,             \* one record per load_model call on this model_config
    calls             \* number of load_model calls started

vars == <<framework, model_id, revision, use_auth_token, device, supertask,
          pc, from_flax, config, model, tokenizer, local_model_id, result,
          trace, hist, calls>>

inputs == <<model_id, revision, use_auth_token, device, supertask>>

Unset == [kind |-> "unset"]
NoResult == [kind |-> "none"]

Call(op, args, outcome, ret) ==
    [op |-> op, args |-> args, outcome |-> outcome, ret |-> ret]

Init ==
    /\ framework \in Frameworks
    /\ model_id \in ModelIds
    /\ revision \in Revisions
    /\ use_auth_token \in AuthTokens
    /\ device \in Devices
    /\ supertask \in Supertasks
    /\ pc = "idle"
    /\ from_flax = FALSE
    /\ config = Unset
    /\ model = Unset
    /\ tokenizer = Unset
    /\ local_model_id = <<>>
    /\ result = NoResult
    /\ trace = <<>>
    /\ hist = <<>>
    /\ calls = 0

\* An exception leaves the current load_model call.
Raise(e) ==
    /\ pc' = "done"
    /\ result' = [kind |-> "raise", exc |-> e]

(***************************************************************************)
(* load_model, lines 49-68                                                 *)
(***************************************************************************)
LoadModel ==
    /\ pc \in {"idle", "done"}
    /\ calls < MaxCalls
    /\ calls' = calls + 1
    /\ from_flax' = (framework = "JAX")
    /\ framework' = RewriteFramework(framework)
    /\ config' = Unset
    /\ model' = Unset
    /\ tokenizer' = Unset
    /\ local_model_id' = <<>>
    /\ hist' = Append(hist, [entry |-> framework, from_flax |-> from_flax',
                             loader |-> Dispatch(framework'),
                             prev |-> result.kind])
    /\ IF Dispatch(framework') = "load_pytorch_model"
       THEN /\ pc' = "config"
            /\ result' = NoResult
            /\ trace' = <<Call("load_pytorch_model",
                               [model_id |-> model_id, from_flax |-> from_flax'],
                               "entered", Unset)>>
       ELSE IF Dispatch(framework') = "load_spacy_model"
       THEN /\ pc' = "is_installed"
            /\ result' = NoResult
            /\ trace' = <<Call("load_spacy_model", [model_id |-> model_id],
                               "entered", Unset)>>
       ELSE /\ trace' = <<>>
            /\ Raise(InvalidFramework(framework'))
    /\ UNCHANGED inputs

(***************************************************************************)
(* load_pytorch_model, lines 101-184                                       *)
(***************************************************************************)
\* Lines 103-107: AutoConfig.from_pretrained.
ConfigFromPretrained ==
    /\ pc = "config"
    /\ LET args == [model_id |-> model_id, revision |-> revision,
                    use_auth_token |-> use_auth_token]
       IN \/ /\ config' = [kind |-> "config", model_id |-> model_id]
             /\ trace' = Append(trace, Call("AutoConfig.from_pretrained", args, "ok", config'))
             /\ pc' = "check_supertask"
             /\ UNCHANGED result
          \/ \E e \in HubErrors :
             /\ trace' = Append(trace, Call("AutoConfig.from_pretrained", args, e.type, Unset))
             /\ Raise(PytorchTryHandler(e, model_id))
             /\ UNCHANGED config
    /\ UNCHANGED <<framework, inputs, from_flax, model, tokenizer,
                   local_model_id, hist, calls>>

\* Lines 110-111: check_supertask.
CheckSupertask ==
    /\ pc = "check_supertask"
    /\ LET args == [supertask |-> supertask]
       IN \/ /\ trace' = Append(trace, Call("check_supertask", args, "ok", Unset))
             /\ pc' = "get_class"
             /\ UNCHANGED result
          \/ \E e \in HubErrors \cup {InvalidEvaluation(<<"supertask">>)} :
             /\ trace' = Append(trace, Call("check_supertask", args, e.type, Unset))
             /\ Raise(PytorchTryHandler(e, model_id))
    /\ UNCHANGED <<framework, inputs, from_flax, config, model, tokenizer,
                   local_model_id, hist, calls>>

\* Lines 114-124: get_class_by_name, and the check of what it returned.
GetClassByName ==
    /\ pc = "get_class"
    /\ LET args == [class_name |-> <<"auto-model-for-", supertask>>,
                    module_name |-> "transformers"]
       IN \/ /\ trace' = Append(trace, Call("get_class_by_name", args, "ok", Unset))
             /\ pc' = "load_weights"
             /\ UNCHANGED result
          \/ /\ trace' = Append(trace, Call("get_class_by_name", args, "None", Unset))
             /\ Raise(PytorchTryHandler(
                   InvalidEvaluation(<<"The supertask '", supertask,
                       "' does not correspond to a Hugging Face AutoModel type.">>),
                   model_id))
          \/ \E e \in HubErrors :
             /\ trace' = Append(trace, Call("get_class_by_name", args, e.type, Unset))
             /\ Raise(PytorchTryHandler(e, model_id))
    /\ UNCHANGED <<framework, inputs, from_flax, config, model, tokenizer,
                   local_model_id, hist, calls>>

\* Lines 127-134: model_cls.from_pretrained.
ModelFromPretrained ==
    /\ pc = "load_weights"
    /\ LET args == [model_id |-> model_id, revision |-> revision,
                    use_auth_token |-> use_auth_token, from_flax |-> from_flax]
       IN \/ \E cls \in ClassNames :
             /\ model' = [kind |-> "model", origin |-> "model_cls.from_pretrained",
                          cls |-> cls, adjusted |-> FALSE, eval_called |-> FALSE,
                          moved_to |-> "unmoved"]
             /\ trace' = Append(trace, Call("model_cls.from_pretrained", args, "ok", model'))
             /\ pc' = "adjust"
             /\ UNCHANGED result
          \/ \E e \in HubErrors :
             /\ trace' = Append(trace, Call("model_cls.from_pretrained", args, e.type, Unset))
             /\ Raise(PytorchTryHandler(e, model_id))
             /\ UNCHANGED model
    /\ UNCHANGED <<framework, inputs, from_flax, config, tokenizer,
                   local_model_id, hist, calls>>

\* Lines 146-150: adjust_model_to_task works on the model in place.
AdjustModelToTask ==
    /\ pc = "adjust"
    /\ LET args == [model_id |-> model_id, supertask |-> supertask]
       IN \/ \E cls \in ClassNames :
             /\ model' = [model EXCEPT !.adjusted = TRUE, !.cls = cls]
             /\ trace' = Append(trace, Call("adjust_model_to_task", args, "ok", Unset))
             /\ pc' = "load_tokenizer"
             /\ UNCHANGED result
          \/ /\ trace' = Append(trace, Call("adjust_model_to_task", args,
                                            "InvalidEvaluation", Unset))
             /\ Raise(InvalidEvaluation(<<"adjust_model_to_task">>))
             /\ UNCHANGED model
    /\ UNCHANGED <<framework, inputs, from_flax, config, tokenizer,
                   local_model_id, hist, calls>>

\* Lines 154-162: AutoTokenizer.from_pretrained, outside the try block.
TokenizerFromPretrained ==
    /\ pc = "load_tokenizer"
    /\ LET args == [model_id |-> model_id, revision |-> revision,
                    use_auth_token |-> use_auth_token, use_fast |-> TRUE,
                    add_prefix_space |-> PrefixSpace(model.cls)]
       IN \/ \E tok \in Tokenizers :
             /\ tokenizer' = tok
             /\ trace' = Append(trace, Call("AutoTokenizer.from_pretrained", args, "ok", tok))
             /\ pc' = "max_length"
             /\ UNCHANGED result
          \/ \E e \in HubErrors :
             /\ trace' = Append(trace, Call("AutoTokenizer.from_pretrained", args,
                                            e.type, Unset))
             /\ Raise(e)
             /\ UNCHANGED tokenizer
    /\ UNCHANGED <<framework, inputs, from_flax, config, model,
                   local_model_id, hist, calls>>

\* Lines 166-176: the tokenizer's model_max_length is set.
SetModelMaxLength ==
    /\ pc = "max_length"
    /\ tokenizer' = FixMaxLength(tokenizer)
    /\ trace' = Append(trace, Call("set_model_max_length", Unset, "ok", Unset))
    /\ pc' = "eval"
    /\ UNCHANGED <<framework, inputs, from_flax, config, model,
                   local_model_id, result, hist, calls>>

\* Variant of ModelEval that goes on without calling model.eval().
ModelEvalSkipped ==
    /\ pc = "eval"
    /\ pc' = "to_device"
    /\ UNCHANGED <<framework, inputs, from_flax, config, model, tokenizer,
                   local_model_id, result, trace, hist, calls>>

\* Line 179: model.eval().
ModelEval ==
    /\ pc = "eval"
    /\ model' = [model EXCEPT !.eval_called = TRUE]
    /\ trace' = Append(trace, Call("model.eval", Unset, "ok", Unset))
    /\ pc' = "to_device"
    /\ UNCHANGED <<framework, inputs, from_flax, config, tokenizer,
                   local_model_id, result, hist, calls>>

\* Line 182: model.to(evaluation_config.device).
ModelTo ==
    /\ pc = "to_device"
    /\ LET args == [device |-> device]
       IN \/ /\ model' = [model EXCEPT !.moved_to = device]
             /\ trace' = Append(trace, Call("model.to", args, "ok", Unset))
             /\ pc' = "return"
             /\ UNCHANGED result
          \/ /\ trace' = Append(trace, Call("model.to", args, "RuntimeError", Unset))
             /\ Raise(LibraryError("RuntimeError"))
             /\ UNCHANGED model
    /\ UNCHANGED <<framework, inputs, from_flax, config, tokenizer,
                   local_model_id, hist, calls>>

\* Line 184: return dict(model=model, tokenizer=tokenizer).
PytorchReturn ==
    /\ pc = "return"
    /\ result' = [kind |-> "return", dict |-> PytorchDict(model, tokenizer)]
    /\ pc' = "done"
    /\ UNCHANGED <<framework, inputs, from_flax, config, model, tokenizer,
                   local_model_id, trace, hist, calls>>

(***************************************************************************)
(* load_spacy_model, lines 204-230                                         *)
(***************************************************************************)
\* Lines 204-208: the local id is split off and is_module_installed asked.
IsModuleInstalled ==
    /\ pc = "is_installed"
    /\ local_model_id' = LocalModelId(model_id)
    /\ \E installed \in BOOLEAN :
         /\ trace' = Append(trace, Call("is_module_installed",
                                        [module |-> local_model_id'],
                                        IF installed THEN "True" ELSE "False", Unset))
         /\ pc' = IF installed THEN "spacy_load" ELSE "pip_install"
    /\ UNCHANGED <<framework, inputs, from_flax, config, model, tokenizer,
                   result, hist, calls>>

\* Lines 209-216: subprocess.run(["pip3", "install", url]), without check=True:
\* a non-zero exit status is returned, not raised; a missing pip3 raises OSError.
PipInstall ==
    /\ pc = "pip_install"
    /\ LET args == [url |-> WheelUrl(model_id, local_model_id)]
       IN \/ \E status \in {"exit 0", "exit 1"} :
             /\ trace' = Append(trace, Call("subprocess.run", args, status, Unset))
             /\ pc' = "spacy_load"
             /\ UNCHANGED result
          \/ /\ trace' = Append(trace, Call("subprocess.run", args, "OSError", Unset))
             /\ Raise(SpacyInstallHandler(LibraryError("OSError"), local_model_id))
    /\ UNCHANGED <<framework, inputs, from_flax, config, model, tokenizer,
                   local_model_id, hist, calls>>

\* Lines 219-229: spacy.load(local_model_id).
SpacyLoad ==
    /\ pc = "spacy_load"
    /\ LET args == [name |-> local_model_id]
       IN \/ /\ model' = [kind |-> "model", origin |-> "spacy.load",
                          name |-> local_model_id]
             /\ trace' = Append(trace, Call("spacy.load", args, "ok", model'))
             /\ pc' = "spacy_return"
             /\ UNCHANGED result
          \/ \E e \in {LibraryError("OSError"), LibraryError("ValueError")} :
             /\ trace' = Append(trace, Call("spacy.load", args, e.type, Unset))
             /\ Raise(SpacyLoadHandler(e, model_id))
             /\ UNCHANGED model
    /\ UNCHANGED <<framework, inputs, from_flax, config, tokenizer,
                   local_model_id, hist, calls>>

\* Line 230: return dict(model=model).
SpacyReturn ==
    /\ pc = "spacy_return"
    /\ result' = [kind |-> "return", dict |-> SpacyDict(model)]
    /\ pc' = "done"
    /\ UNCHANGED <<framework, inputs, from_flax, config, model, tokenizer,
                   local_model_id, trace, hist, calls>>

Next ==
    \/ LoadModel
    \/ ConfigFromPretrained
    \/ CheckSupertask
    \/ GetClassByName
    \/ ModelFromPretrained
    \/ AdjustModelToTask
    \/ TokenizerFromPretrained
    \/ SetModelMaxLength
    \/ ModelEval
    \/ ModelTo
    \/ PytorchReturn
    \/ IsModuleInstalled
    \/ PipInstall
    \/ SpacyLoad
    \/ SpacyReturn

Spec == Init /\ [][Next]_vars

(***************************************************************************)
(* Properties                                                              *)
(***************************************************************************)
\* The framework model_config held when the current call was entered.
Entry == hist[Len(hist)].entry
InPytorch == Len(trace) > 0 /\ trace[1].op = "load_pytorch_model"
InSpacy == Len(trace) > 0 /\ trace[1].op = "load_spacy_model"
Returned == pc = "done" /\ result.kind = "return"
Raised == pc = "done" /\ result.kind = "raise"
\* The positions of the trace at which op was called.
Entries(op) == {i \in 1..Len(trace) : trace[i].op = op}
LibraryOps ==
    {"AutoConfig.from_pretrained", "check_supertask", "get_class_by_name",
     "model_cls.from_pretrained", "adjust_model_to_task",
     "AutoTokenizer.from_pretrained", "model.eval", "model.to",
     "is_module_installed", "subprocess.run", "spacy.load"}

\* C1: load_model calls load_pytorch_model alone when the framework is
\* PYTORCH or JAX, load_spacy_model alone (with model_config.model_id) when it
\* is SPACY, and otherwise raises InvalidFramework carrying the framework,
\* having called neither loader nor any library.
C1_Dispatch ==
    calls > 0 =>
        /\ Entry \in {"PYTORCH", "JAX"} =>
              /\ Cardinality(Entries("load_pytorch_model")) = 1
              /\ Entries("load_spacy_model") = {}
        /\ Entry = "SPACY" =>
              /\ Cardinality(Entries("load_spacy_model")) = 1
              /\ Entries("load_pytorch_model") = {}
              /\ \A i \in Entries("load_spacy_model") :
                    trace[i].args.model_id = model_id
        /\ Entry \notin {"PYTORCH", "JAX", "SPACY"} =>
              /\ Raised
              /\ result.exc.type = "InvalidFramework"
              /\ result.exc.framework = Entry
              /\ trace = <<>>

C1_Witness ==
    /\ calls > 0
    /\ Entry = "TENSORFLOW"
    /\ Raised
    /\ result.exc = InvalidFramework("TENSORFLOW")

\* C2: whenever a library call made during load_model fails with OSError,
\* ValueError or CalledProcessError, the exception that reaches the caller is
\* InvalidEvaluation, InvalidFramework or ModelFetchFailed.
C2_LibraryErrorsWrapped ==
    \A i \in 1..Len(trace) :
        (/\ trace[i].op \in {"AutoConfig.from_pretrained", "model_cls.from_pretrained",
                             "AutoTokenizer.from_pretrained", "subprocess.run",
                             "spacy.load"}
         /\ trace[i].outcome \in {"OSError", "ValueError", "CalledProcessError"})
        => (Raised /\ result.exc.type \in ProjectExceptions)

\* C3: load_pytorch_model raises InvalidEvaluation when the configuration
\* load, the supertask check, the class lookup or the weight load raises
\* OSError or ValueError, or when the class lookup returns nothing; and then
\* nothing later runs and nothing is returned.
C3_FailedStep(i) ==
    \/ /\ trace[i].op \in {"AutoConfig.from_pretrained", "check_supertask",
                           "get_class_by_name", "model_cls.from_pretrained"}
       /\ trace[i].outcome \in {"OSError", "ValueError"}
    \/ /\ trace[i].op = "get_class_by_name"
       /\ trace[i].outcome = "None"

C3_InvalidEvaluation ==
    \A i \in 1..Len(trace) :
        C3_FailedStep(i) =>
            /\ Raised
            /\ result.exc.type = "InvalidEvaluation"
            /\ i = Len(trace)
            /\ \A op \in {"adjust_model_to_task", "AutoTokenizer.from_pretrained",
                          "set_model_max_length", "model.eval", "model.to"} :
                   Entries(op) = {}

C3_Witness ==
    /\ Raised
    /\ result.exc.type = "InvalidEvaluation"
    /\ \E i \in Entries("model_cls.from_pretrained") : trace[i].outcome = "ValueError"

\* C4: load_spacy_model ends by raising ModelFetchFailed, and returns no
\* dictionary, whenever the pip install failed (non-zero exit status or
\* CalledProcessError) or spacy.load raised OSError; raised from the
\* spacy.load step, the message is the custom text built from the full id.
C4_FetchFailed ==
    (pc = "done" /\ InSpacy) =>
        /\ (\/ \E i \in Entries("subprocess.run") :
                  trace[i].outcome \in {"exit 1", "CalledProcessError"}
            \/ \E i \in Entries("spacy.load") : trace[i].outcome = "OSError")
           => (Raised /\ result.exc.type = "ModelFetchFailed")
        /\ (\E i \in Entries("spacy.load") : trace[i].outcome = "OSError")
           => /\ Raised
              /\ result.exc.type = "ModelFetchFailed"
              /\ result.exc.message =
                    <<"Download of ", model_id,
                      " failed, with the following error message: ",
                      LibraryError("OSError").message, ".">>

\* C5: a load_model call that returns gives a dictionary with the key
\* 'model': for PYTORCH and JAX exactly 'model' and 'tokenizer', the objects
\* of the weight load and of the tokenizer load; for SPACY exactly 'model',
\* the result of spacy.load.
C5_ReturnedDict ==
    Returned =>
        /\ "model" \in DOMAIN result.dict
        /\ Entry \in {"PYTORCH", "JAX"} =>
              /\ DOMAIN result.dict = {"model", "tokenizer"}
              /\ result.dict.model.origin = "model_cls.from_pretrained"
              /\ result.dict.tokenizer.origin = "AutoTokenizer.from_pretrained"
        /\ Entry = "SPACY" =>
              /\ DOMAIN result.dict = {"model"}
              /\ \E i \in Entries("spacy.load") : result.dict.model = trace[i].ret

C5_Witness ==
    /\ Returned
    /\ Entry = "JAX"
    /\ DOMAIN result.dict = {"model", "tokenizer"}

\* C6: after a successful load_pytorch_model the tokenizer's model_max_length
\* is its original value if it had one of at most 1000, otherwise the least
\* value of max_model_input_sizes if that exists and is non-empty, otherwise
\* 512.
C6_Expected(t0, v) ==
    IF t0.has_model_max_length /\ t0.model_max_length <= 1000
    THEN v = t0.model_max_length
    ELSE IF t0.has_max_model_input_sizes /\ t0.max_model_input_sizes # <<>>
    THEN /\ \E k \in 1..Len(t0.max_model_input_sizes) : v = t0.max_model_input_sizes[k]
         /\ \A k \in 1..Len(t0.max_model_input_sizes) : v <= t0.max_model_input_sizes[k]
    ELSE v = 512

C6_MaxLength ==
    (Returned /\ InPytorch) =>
        \A i \in Entries("AutoTokenizer.from_pretrained") :
            /\ result.dict.tokenizer.has_model_max_length
            /\ C6_Expected(trace[i].ret, result.dict.tokenizer.model_max_length)

C6_Witness ==
    /\ Returned
    /\ InPytorch
    /\ \E i \in Entries("AutoTokenizer.from_pretrained") :
          /\ trace[i].ret.has_model_max_length
          /\ trace[i].ret.model_max_length = 1001
          /\ trace[i].ret.has_max_model_input_sizes
          /\ trace[i].ret.max_model_input_sizes = <<1024, 256>>
    /\ result.dict.tokenizer.model_max_length = 256

\* C7: the tokenizer is loaded with add_prefix_space true exactly when the
\* class name of the model, as adjust_model_to_task left it, contains
\* 'Roberta'; always with use_fast true and with the model_id, revision and
\* use_auth_token the model was loaded with.
C7_HasRoberta(cls) ==
    \E i \in 1..Len(cls) :
        \A k \in 1..7 :
            /\ i + k - 1 <= Len(cls)
            /\ cls[i + k - 1] = <<"R", "o", "b", "e", "r", "t", "a">>[k]

C7_TokenizerArgs ==
    \A i \in Entries("AutoTokenizer.from_pretrained") :
        /\ trace[i].args.add_prefix_space <=> C7_HasRoberta(model.cls)
        /\ trace[i].args.use_fast
        /\ \A j \in Entries("model_cls.from_pretrained") :
              /\ trace[i].args.model_id = trace[j].args.model_id
              /\ trace[i].args.revision = trace[j].args.revision
              /\ trace[i].args.use_auth_token = trace[j].args.use_auth_token

C7_Witness ==
    /\ \E i \in Entries("AutoTokenizer.from_pretrained") :
          trace[i].args.add_prefix_space
    /\ \E j \in Entries("model_cls.from_pretrained") :
          trace[j].outcome = "ok" /\ trace[j].ret.cls = BertModel
    /\ model.cls = XLMRobertaModel

\* C8 (as amended): the pip install is attempted at most once per call and
\* only when is_module_installed(local_model_id) was false, local_model_id
\* being the last '/'-separated segment of model_id; spacy.load is called
\* with local_model_id, and it is called whenever the install step did not
\* raise.
C8_IsLastSegment(n, mid) ==
    /\ Len(n) <= Len(mid)
    /\ SubSeq(mid, Len(mid) - Len(n) + 1, Len(mid)) = n
    /\ \A k \in 1..Len(n) : n[k] # "/"
    /\ Len(n) < Len(mid) => mid[Len(mid) - Len(n)] = "/"

C8_InstallOnlyIfMissing ==
    /\ Cardinality(Entries("subprocess.run")) <= 1
    /\ \A i \in Entries("is_module_installed") :
          C8_IsLastSegment(trace[i].args.module, model_id)
    /\ \A i \in Entries("subprocess.run") :
          \E j \in Entries("is_module_installed") :
              j < i /\ trace[j].outcome = "False"
    /\ (\E j \in Entries("is_module_installed") : trace[j].outcome = "True")
          => Entries("subprocess.run") = {}
    /\ \A i \in Entries("spacy.load") :
          C8_IsLastSegment(trace[i].args.name, model_id)

C8_InstallRaised ==
    \E i \in Entries("subprocess.run") :
        trace[i].outcome \notin {"exit 0", "exit 1"}

C9_Order ==
    /\ (Returned /\ InPytorch) =>
          /\ Ops(trace) = <<"load_pytorch_model", "AutoConfig.from_pretrained",
                            "check_supertask", "get_class_by_name",
                            "model_cls.from_pretrained", "adjust_model_to_task",
                            "AutoTokenizer.from_pretrained", "set_model_max_length",
                            "model.eval", "model.to">>
          /\ trace[Len(trace)].args.device = device
          /\ result.dict.model.eval_called
          /\ result.dict.model.moved_to = device
    /\ \A i \in Entries("model_cls.from_pretrained") :
          \E j \in Entries("check_supertask") : j < i /\ trace[j].outcome = "ok"

C9_Witness ==
    /\ Returned
    /\ InPytorch
    /\ Len(trace) = 10
    /\ result.dict.model.moved_to = "cuda"

\* C10: load_model passes from_flax = true exactly when the framework was
\* JAX on entry; after any call, returned or raised, the framework is
\* PYTORCH if it was JAX or PYTORCH on entry and unchanged otherwise; a later
\* call on a model_config that was first JAX passes from_flax = false.
C10_FromFlax ==
    /\ \A i \in 1..Len(hist) :
          /\ hist[i].from_flax <=> (hist[i].entry = "JAX")
          /\ (i > 1 /\ hist[1].entry = "JAX") =>
                /\ hist[i].entry = "PYTORCH"
                /\ hist[i].loader = "load_pytorch_model"
                /\ ~hist[i].from_flax
    /\ \A i \in Entries("load_pytorch_model") :
          trace[i].args.from_flax <=> (Entry = "JAX")
    /\ calls > 0 =>
          framework = (IF Entry \in {"JAX", "PYTORCH"} THEN "PYTORCH" ELSE Entry)

C10_Witness ==
    /\ Len(hist) = 2
    /\ hist[1].entry = "JAX"
    /\ hist[2].prev = "raise"
    /\ ~hist[2].from_flax
    /\ Returned
====
